---- MODULE Spec2Model ----
(***************************************************************************)
(* Scheduled delivery engine of the AGU schedule bot: recipient selection, *)
(* the daily digest job, the per-slot reminder jobs, the retrying send,    *)
(* the batch dispatcher, the admin broadcast and the delivery ledger.      *)
(*                                                                         *)
(* Time is counted in minutes of UTC since 00:00 of a Monday (day 0).      *)
(* The clock only stands on the instants of a grid: the cron fire times    *)
(* and GridPerDay evenly spaced instants a day.                            *)
(***************************************************************************)
EXTENDS Integers, Sequences, FiniteSets, TLC

\* ------------------------------------------------------------------------
\* Bounds of the model
\* ------------------------------------------------------------------------
NumUsers == 2
GridPerDay == 1
HorizonDays == 1
MaxUserActions == 1
MaxSendFailures == 1
MaxBroadcasts == 1
MaxRetriesBound == 3
MaxItems == 4
MaxBatchSize == 3
MaxOutages == 1
MaxSlotEdits == 1
MaxRestarts == 1

\* Offsets of the server's local time to UTC, in minutes (the OS timezone
\* that datetime.now() reads; the code does not fix it).
ServerOffsets == {-480, 0, 180}

\* ------------------------------------------------------------------------
\* Configuration (app/config.py)
\* ------------------------------------------------------------------------
MORNING_MESSAGE_HOUR == 8
MORNING_MESSAGE_MINUTE == 0
REMINDER_MINUTES_BEFORE == 5
MAX_RETRIES == 1
\* BATCH_SIZE as the environment sets it here (the default is 30): with one
\* send to a batch, two recipients are two batches
BATCH_SIZE == 1
\* TIMEZONE = "Europe/Moscow": UTC+3 all year, in minutes
TIMEZONE == 180

MinutesPerDay == 24 * 60
\* the run starts on a Monday at 00:00 UTC, a week after day 0, and ends
\* at noon after HorizonDays more days
StartTime == 7 * MinutesPerDay
EndTime == StartTime + HorizonDays * MinutesPerDay + MinutesPerDay \div 2

\* SQL NULL in a TEXT column / Python None for a timestamp
NULL == [null |-> TRUE]

\* ------------------------------------------------------------------------
\* Civil time
\* ------------------------------------------------------------------------
DateOf(t) == t \div MinutesPerDay
TodOf(t) == t % MinutesPerDay
\* datetime.weekday(): 0 = Monday; day 0 of the model is a Monday
WeekdayOf(t) == DateOf(t) % 7

\* datetime.isoformat() of a naive datetime: "YYYY-MM-DDTHH:MM:SS.ffffff"
IsoFormat(t) == [date |-> DateOf(t), sep |-> "T", tod |-> TodOf(t)]
\* SQLite datetime('now'): "YYYY-MM-DD HH:MM:SS", always UTC
SqlDatetimeNow(utc) == [date |-> DateOf(utc), sep |-> " ", tod |-> TodOf(utc)]
\* datetime.fromisoformat(): the instant the text denotes
FromIsoFormat(s) == s.date * MinutesPerDay + s.tod

\* code points of the separator characters
SepRank(c) == IF c = "T" THEN 84 ELSE 32

\* SQLite's < on two TEXT values (BINARY collation): the first differing
\* character decides. The date fields have a fixed width, then the separator
\* at position 10, then the time of day.
SqlTextLess(a, b) ==
    IF a.date # b.date THEN a.date < b.date
    ELSE IF a.sep # b.sep THEN SepRank(a.sep) < SepRank(b.sep)
    ELSE a.tod < b.tod

\* ------------------------------------------------------------------------
\* The store: users, time slots, pairs (a fixed timetable)
\* ------------------------------------------------------------------------
Users == 1..NumUsers
\* users.tg_id of the row with users.id = u (two different key spaces)
TgIdOf(u) == 100 + u
Slots == {1, 2}
Directions == {1, 2}

HHMM(h, m) == [h |-> h, m |-> m]

\* time_slots as seeded: slot_number -> start_time
SeedSlots == [s \in Slots |-> IF s = 1 THEN HHMM(8, 30) ELSE HHMM(10, 10)]

\* pairs joined with pair_assignments: a timetable in which direction 1 has
\* two classes in slot 1 on Tuesday (weekday 1) and one in slot 2, and
\* direction 2 has one class in slot 2 on Tuesday and one in slot 1 on Monday.
Pairs ==
    { [id |-> 1, day_of_week |-> 1, time_slot_id |-> 1, directions |-> {1}],
      [id |-> 2, day_of_week |-> 1, time_slot_id |-> 1, directions |-> {1}],
      [id |-> 3, day_of_week |-> 1, time_slot_id |-> 2, directions |-> {1, 2}],
      [id |-> 4, day_of_week |-> 0, time_slot_id |-> 1, directions |-> {2}],
      [id |-> 5, day_of_week |-> 0, time_slot_id |-> 2, directions |-> {1}] }

VARIABLES
    now,          \* the current instant (UTC minutes)
    serverOff,    \* offset of the server's local time to UTC
    users,        \* users table: id -> row
    time_slots,   \* time_slots table: slot_number -> start_time
    jobs,         \* the scheduler's job table, built at startup
    run,          \* per event: the state of its current run
    ledger,       \* delivery_log: sequence of rows in insertion order
    outbox,       \* history: one record per send_message_with_retry call
    firings,      \* history: one record per firing (the store as it was)
    lastFired,    \* per event: the instant of its last firing
    nActions,     \* number of user actions taken (bounded)
    nFailures,    \* number of sends the provider has failed (bounded)
    bc,           \* the admin broadcast in progress
    recorded,     \* history: how many sent / error outcomes were recorded
    rt,           \* one call of send_message_with_retry, step by step
    bs,           \* one call of batch_send, step by step
    sched,        \* the process: its startup and whether the scheduler runs
                  \* (and the counts of the slot edits and restarts so far)
    store,        \* the database: reachable or not, and its outages so far
    reg           \* the directions table, the registration dialogue of each
                  \* chat and the direction delete request in progress

vars == <<now, serverOff, users, time_slots, jobs, run, ledger, outbox,
          firings, lastFired, nActions, nFailures, bc, recorded, rt, bs,
          sched, store, reg>>

\* the two step-by-step calls, the state of the process and of the
\* database, and the directions with their dialogues, which the engine's
\* actions leave alone
callVars == <<rt, bs, sched, store, reg>>

\* datetime.now() on the server
LocalNow == now + serverOff

\* ------------------------------------------------------------------------
\* send_message_with_retry (app/scheduler/utils/delivery.py)
\* ------------------------------------------------------------------------
\* What one call of bot.send_message can do: succeed, raise a
\* TelegramAPIError for a passing condition (flood control, network) or for a
\* permanent one (bot blocked, chat not found: TelegramForbiddenError and
\* TelegramBadRequest are subclasses of TelegramAPIError), or raise anything
\* else.
SendOutcomes == {"ok", "api_transient", "api_fatal", "unexpected"}

\* (variant: the except TelegramAPIError clause catches nothing)
IsTelegramAPIErrorNever(o) == FALSE

\* except TelegramAPIError
IsTelegramAPIError(o) == o \in {"api_transient", "api_fatal"}

\* (variant: the loop gives up one attempt early)
AfterAttemptEarly(attempt, max_retries, o) ==
    IF o = "ok" THEN "return_true"
    ELSE IF IsTelegramAPIError(o)
         THEN IF attempt + 1 < max_retries THEN "sleep" ELSE "return_false"
         ELSE "return_false"

\* One pass of the loop body for attempt number `attempt` (from 0) whose
\* send did `o`: return True, sleep 1s and go round again, or return False.
AfterAttempt(attempt, max_retries, o) ==
    IF o = "ok" THEN "return_true"
    ELSE IF IsTelegramAPIError(o)
         THEN IF attempt < max_retries THEN "sleep" ELSE "return_false"
         ELSE "return_false"

\* The whole call against a provider that answers plan[1], plan[2], ...:
\* the value returned, the number of sends made and of 1s sleeps taken.
RECURSIVE RetryFrom(_, _, _)
RetryFrom(attempt, max_retries, plan) ==
    IF attempt >= max_retries + 1
    THEN [ok |-> FALSE, attempts |-> attempt, sleeps |-> attempt]
    ELSE LET a == AfterAttempt(attempt, max_retries, plan[attempt + 1])
         IN  IF a = "return_true"
             THEN [ok |-> TRUE, attempts |-> attempt + 1, sleeps |-> attempt]
             ELSE IF a = "sleep"
             THEN RetryFrom(attempt + 1, max_retries, plan)
             ELSE [ok |-> FALSE, attempts |-> attempt + 1, sleeps |-> attempt]

SendMessageWithRetry(plan, max_retries) == RetryFrom(0, max_retries, plan)

\* the provider's answers to the attempts of one call
Plans(max_retries) == [1..(max_retries + 1) -> SendOutcomes]

\* ------------------------------------------------------------------------
\* Queries (app/db/queries)
\* ------------------------------------------------------------------------
\* WHERE paused_until IS NULL OR paused_until < datetime('now')
IsActiveRow(row, utc) ==
    \/ row.paused_until = NULL
    \/ SqlTextLess(row.paused_until, SqlDatetimeNow(utc))

\* get_active_users: the rows that pass the filter, in rowid order
GetActiveUsers(table, utc) ==
    SelectSeq([i \in 1..NumUsers |-> i], LAMBDA u : IsActiveRow(table[u], utc))

\* update_user_settings: None arguments are left out of the UPDATE
\* (an optional argument is a set: {} for None, {v} for the value v)
UpdateUserSettings(table, u, remind_before, paused_until) ==
    [table EXCEPT
        ![u].remind_before =
            IF remind_before # {} THEN CHOOSE v \in remind_before : TRUE ELSE @,
        ![u].paused_until =
            IF paused_until # {} THEN CHOOSE v \in paused_until : TRUE ELSE @]

\* ORDER BY ts.slot_number (rows of one slot in id order)
PairBefore(p, q, slots) ==
    \/ p.time_slot_id < q.time_slot_id
    \/ p.time_slot_id = q.time_slot_id /\ p.id < q.id

RECURSIVE OrderPairs(_, _)
OrderPairs(S, slots) ==
    IF S = {} THEN <<>>
    ELSE LET p == CHOOSE x \in S : \A y \in S \ {x} : PairBefore(x, y, slots)
         IN  <<p>> \o OrderPairs(S \ {p}, slots)

\* get_pairs_by_direction_and_day: (pair, start_time) of the classes of the
\* direction on the weekday, joined with the current time_slots
GetPairsByDirectionAndDay(direction_id, day_of_week, slots) ==
    LET rows == OrderPairs({p \in Pairs : /\ direction_id \in p.directions
                                          /\ p.day_of_week = day_of_week
                                          /\ p.time_slot_id \in DOMAIN slots},
                           slots)
    IN  [i \in 1..Len(rows) |->
            [pair |-> rows[i], start_time |-> slots[rows[i].time_slot_id]]]

\* ------------------------------------------------------------------------
\* Scheduler (app/scheduler/scheduler.py)
\* ------------------------------------------------------------------------
MORNING == 0
Events == {MORNING} \cup Slots

\* calculate_reminder_time: slot start minus the lead, as a time of day
CalculateReminderTime(slot_start, minutes_before) ==
    LET t == (slot_start.h * 60 + slot_start.m - minutes_before) % MinutesPerDay
    IN  HHMM(t \div 60, t % 60)

\* setup_scheduler: one cron job for the digest, one per time slot
SetupScheduler(slots) ==
    [e \in {MORNING} \cup DOMAIN slots |->
        IF e = MORNING
        THEN [at |-> HHMM(MORNING_MESSAGE_HOUR, MORNING_MESSAGE_MINUTE),
              slot_number |-> 0, start_time |-> HHMM(MORNING_MESSAGE_HOUR, MORNING_MESSAGE_MINUTE)]
        ELSE [at |-> CalculateReminderTime(slots[e], REMINDER_MINUTES_BEFORE),
              slot_number |-> e, start_time |-> slots[e]]]

\* CronTrigger(hour, minute, timezone=TIMEZONE) matches the instant t
CronDue(e, t) == TodOf(t + TIMEZONE) = jobs[e].at.h * 60 + jobs[e].at.m

\* the instants of day d on which the clock can stand
GridOfDay(d) ==
    {d * MinutesPerDay + k * (MinutesPerDay \div GridPerDay) : k \in 0..(GridPerDay - 1)}
    \cup {d * MinutesPerDay
            + ((jobs[e].at.h * 60 + jobs[e].at.m - TIMEZONE) % MinutesPerDay) :
            e \in DOMAIN jobs}

\* calculate_reminder_time reads its text with map(int, split(':')) and
\* time(hour, minute), which raise ValueError unless the text is an hour of
\* 0..23 and a minute of 0..59 (a text is modelled by the two numbers read)
Parses(slot_start) == slot_start.h \in 0..23 /\ slot_start.m \in 0..59

\* the job table of a scheduler to which nothing has been added
NoJobs == [e \in {} |-> HHMM(0, 0)]

\* the rows of the ORDER BY slot_number that the loop of setup_scheduler
\* passes before the first one whose start time does not parse
RowsBeforeBad(slots) ==
    {s \in DOMAIN slots :
        \A b \in DOMAIN slots : ~Parses(slots[b]) => s < b}

\* (variant: a row whose start time does not parse is skipped)
StartupOutcomeSkipBad(tz_ok, slots) ==
    IF ~tz_ok THEN [pc |-> "crashed", jobs |-> NoJobs]
    ELSE [pc |-> "running",
          jobs |-> SetupScheduler([s \in {r \in DOMAIN slots : Parses(slots[r])}
                                     |-> slots[s]])]

\* main: scheduler = await setup_scheduler(bot); scheduler.start().  Neither
\* line is in a try: AsyncIOScheduler(timezone=...) raises on a timezone it
\* does not know, calculate_reminder_time raises on a start time it cannot
\* read, and the exception ends main before scheduler.start() (the jobs
\* added so far belong to a scheduler that never runs).
StartupOutcome(tz_ok, slots) ==
    IF ~tz_ok THEN [pc |-> "crashed", jobs |-> NoJobs]
    ELSE IF \E s \in DOMAIN slots : ~Parses(slots[s])
    THEN [pc |-> "crashed",
          jobs |-> SetupScheduler([s \in RowsBeforeBad(slots) |-> slots[s]])]
    ELSE [pc |-> "running", jobs |-> SetupScheduler(slots)]

\* ------------------------------------------------------------------------
\* Delivery ledger (app/scheduler/utils/logging.py, app/admin/logs.py)
\* ------------------------------------------------------------------------
\* (variant: an upsert on (user_id, message_type) in place of the INSERT)
LogDeliveryUpsert(log, user_id, message_type, status, fid) ==
    LET row == [user_id |-> user_id, message_type |-> message_type,
                status |-> status, fid |-> fid]
        old == {i \in 1..Len(log) : log[i].user_id = user_id
                                     /\ log[i].message_type = message_type}
    IN  IF old = {} THEN Append(log, row)
        ELSE [i \in 1..Len(log) |-> IF i \in old THEN row ELSE log[i]]

\* log_delivery: INSERT INTO delivery_log (user_id, message_type, status, ...)
\* (fid is not a column: it names the firing that wrote the row)
LogDelivery(log, user_id, message_type, status, fid) ==
    Append(log, [user_id |-> user_id, message_type |-> message_type,
                 status |-> status, fid |-> fid])

\* log_broadcast_delivery: INSERT ... VALUES (?, 'broadcast', ?, ?, ?)
LogBroadcastDelivery(log, user_id, status) ==
    Append(log, [user_id |-> user_id, message_type |-> "broadcast",
                 status |-> status, fid |-> 0])

\* the count kept beside the ledger of the outcomes handed to it
Recorded(rec, status) ==
    IF status = "sent" THEN [rec EXCEPT !.sent = @ + 1]
    ELSE [rec EXCEPT !.error = @ + 1]

\* CASE WHEN status = ? THEN 1 ELSE 0 END, row by row
CaseWhenStatus(log, status) ==
    [i \in 1..Len(log) |-> IF log[i].status = status THEN 1 ELSE 0]

\* CASE WHEN message_type = ? THEN 1 ELSE 0 END, row by row
CaseWhenType(log, message_type) ==
    [i \in 1..Len(log) |-> IF log[i].message_type = message_type THEN 1 ELSE 0]

\* SQL SUM over a column: NULL ({}) over no rows, else the number ({n})
RECURSIVE SqlSum(_)
SqlSum(vals) ==
    IF vals = <<>> THEN {}
    ELSE LET rest == SqlSum(Tail(vals))
         IN  IF rest = {} THEN {Head(vals)}
             ELSE {Head(vals) + (CHOOSE n \in rest : TRUE)}

\* Python's `x or 0`
OrZero(opt) == IF opt = {} THEN 0 ELSE CHOOSE n \in opt : TRUE

\* the statistics of logs_page
SummaryStats(log) ==
    [total     |-> Len(log),
     sent      |-> OrZero(SqlSum(CaseWhenStatus(log, "sent"))),
     errors    |-> OrZero(SqlSum(CaseWhenStatus(log, "error"))),
     morning   |-> OrZero(SqlSum(CaseWhenType(log, "morning"))),
     reminder  |-> OrZero(SqlSum(CaseWhenType(log, "reminder"))),
     broadcast |-> OrZero(SqlSum(CaseWhenType(log, "broadcast")))]

\* LEFT JOIN users u ON dl.user_id = u.id: the users (the row ids of the
\* users table) a ledger row is shown with on the delivery log page
DeliveryLogUser(table, row) == {u \in DOMAIN table : u = row.user_id}

\* ------------------------------------------------------------------------
\* Initial state: the store as seeded, the scheduler set up, nothing sent
\* ------------------------------------------------------------------------
\* (delays: the sleeps of BATCH_DELAY a run has taken; the loops of the jobs
\* have no sleep, so no action adds to it)
IdleRun == [pc |-> "idle", queue |-> <<>>, idx |-> 0, today |-> 0,
            successful |-> 0, errors |-> 0, skipped |-> 0, fid |-> 0,
            conn |-> "none", outcome |-> "none", escaped |-> FALSE,
            raised |-> {}, delays |-> 0]

\* the scheduler started by main, and the database reachable
Running == [pc |-> "running", tz_ok |-> TRUE, edits |-> 0, restarts |-> 0]
StoreUp == [up |-> TRUE, outages |-> 0]

NoTarget == [course |-> 0, direction_id |-> 0]
IdleBroadcast == [pc |-> "idle", queue |-> <<>>, idx |-> 0, successful |-> 0,
                  errors |-> 0, count |-> 0, outcome |-> "none",
                  target |-> NoTarget]
IdleRetry == [pc |-> "idle", max_retries |-> 0, plan |-> <<>>, attempt |-> 0,
              sends |-> 0, sleeps |-> 0, result |-> "none"]

IdleBatch == [pc |-> "idle", n |-> 0, batch_size |-> 1, i |-> 0,
              inflight |-> {}, results |-> <<>>, calls |-> <<>>,
              successful |-> 0, errors |-> 0, delays |-> 0]

Snapshot(table, u) ==
    [id |-> u, tg_id |-> table[u].tg_id, direction_id |-> table[u].direction_id,
     remind_before |-> table[u].remind_before]

SeedUsers ==
    [u \in Users |->
        [tg_id |-> TgIdOf(u), direction_id |-> ((u - 1) % 2) + 1,
         remind_before |-> TRUE, paused_until |-> NULL]]

\* the chats: those of the registered users (by the row id of the user) and
\* the chat of one applicant who is not registered yet
Applicant == NumUsers + 1
Chats == Users \cup {Applicant}

\* the dialogue of a chat: the FSM state and the FSM data (the directions on
\* keyboard the chat is looking at, the direction chosen, the
\* changing_direction flag)
NoFlow == [state |-> "none", changing |-> FALSE, shown |-> {}, direction_id |-> 0]

\* the directions and pair_assignments as seeded, no dialogue open, nobody
\* registered since, no delete request in progress
NoDelete == [pc |-> "idle", direction_id |-> 0, user_count |-> 0]
IdleReg ==
    [directions |-> Directions,
     pair_assignments |-> UNION {{<<p.id, d>> : d \in p.directions} : p \in Pairs},
     fsm |-> [c \in Chats |-> NoFlow],
     created |-> {},
     del |-> NoDelete]

\* the first user paused for 14 days the evening before the start
PausedEarlier ==
    [SeedUsers EXCEPT ![1].paused_until =
        IsoFormat(StartTime - MinutesPerDay \div 4 + 14 * MinutesPerDay)]

InitEngine ==
    /\ time_slots = SeedSlots
    /\ jobs = SetupScheduler(SeedSlots)
    /\ run = [e \in Events |-> IdleRun]
    /\ ledger = <<>>
    /\ outbox = <<>>
    /\ firings = <<>>
    /\ lastFired = [e \in Events |-> -1]
    /\ nActions = 0
    /\ nFailures = 0
    /\ bc = IdleBroadcast
    /\ recorded = [sent |-> 0, error |-> 0]
    /\ sched = Running
    /\ store = StoreUp
    /\ reg = IdleReg

Init ==
    /\ InitEngine
    /\ now = StartTime
    /\ users = SeedUsers
    /\ serverOff \in ServerOffsets
    /\ rt = IdleRetry
    /\ bs = IdleBatch

\* ------------------------------------------------------------------------
\* Jobs (app/scheduler/jobs)
\* ------------------------------------------------------------------------
\* the record kept of a firing: the event, the instant, the store as it
\* was, the result of get_active_users and the users the run will loop over
FiringRecord(e, active, sel) ==
    [ev |-> e, at |-> now, local |-> LocalNow, users |-> users,
     slots |-> time_slots, start_time |-> jobs[e].start_time,
     active |-> {active[i] : i \in 1..Len(active)},
     selected |-> {sel[i] : i \in 1..Len(sel)}]

\* (variant: an executor with one worker, a job waits for every other job)
ExecutorTakesOneAtATime(e) == \A other \in Events : run[other].pc = "idle"

\* The executor of the scheduler starts a due job as a task of the event
\* loop, beside the tasks of the other jobs; only a run of the same job that
\* has not ended holds it back (max_instances is 1 for each job).
ExecutorTakes(e) == run[e].pc = "idle"

\* (variant: the trigger fires again while the minute lasts)
CanFireAgain(e) ==
    /\ sched.pc = "running"
    /\ e \in DOMAIN jobs
    /\ CronDue(e, now)
    /\ ExecutorTakes(e)

\* the scheduler runs job e: it is started, e is one of its jobs, its
\* trigger matches this minute and has not fired in it, and the job's last
\* run has ended
CanFire(e) ==
    /\ sched.pc = "running"
    /\ e \in DOMAIN jobs
    /\ CronDue(e, now)
    /\ lastFired[e] # now
    /\ ExecutorTakes(e)

\* the provider's answers to one call of send_message_with_retry made by a
\* job, and the number of them that are failures
JobSend(plan) ==
    LET res == SendMessageWithRetry(plan, MAX_RETRIES)
    IN  [ok |-> res.ok, attempts |-> res.attempts,
         failed |-> IF res.ok THEN res.attempts - 1 ELSE res.attempts]

\* The database during one pass of a loop: `flip` says that it changes
\* between the first store operation of the pass and the next one (it goes
\* down, which is a new outage, or it comes back).
CanFlip(flip) == flip /\ store.up => store.outages < MaxOutages
Flipped(flip) ==
    IF ~flip THEN store
    ELSE IF store.up THEN [up |-> FALSE, outages |-> store.outages + 1]
    ELSE [store EXCEPT !.up = TRUE]

\* log_delivery: the INSERT in a try, a failure of it is logged and dropped
TryLogDelivery(log, written, user_id, message_type, status, fid) ==
    IF written THEN LogDelivery(log, user_id, message_type, status, fid) ELSE log
TryRecorded(rec, written, status) ==
    IF written THEN Recorded(rec, status) ELSE rec

\* Where a job whose database is down fails before its loop: in
\* get_connection, which the job calls before its try, at aiosqlite.connect
\* (no connection is made) or at one of the PRAGMAs after it (the connection
\* is made and nothing closes it), the exception leaving the job for the
\* scheduler's executor to log; or in get_active_users, inside the try: the
\* outer except logs it and the finally closes the connection.
StartFailures == {"connect", "pragma", "query"}

JobStartFailure(at) ==
    IF at = "connect"
    THEN [IdleRun EXCEPT !.outcome = "failed", !.escaped = TRUE]
    ELSE IF at = "pragma"
    THEN [IdleRun EXCEPT !.outcome = "failed", !.escaped = TRUE, !.conn = "open"]
    ELSE [IdleRun EXCEPT !.outcome = "failed", !.conn = "closed"]

\* (variant: no try around the body of the loop, the exception goes to the
\* except of the job)
AfterLookupRaisedAbort(r) ==
    [r EXCEPT !.pc = "idle", !.outcome = "failed", !.conn = "closed",
              !.raised = @ \cup {r.idx}]

\* the except of one pass of the loop: errors += 1 and on to the next user
\* (raised: history, the positions of the queue where it happened)
AfterLookupRaised(r) ==
    [r EXCEPT !.idx = @ + 1, !.errors = @ + 1, !.raised = @ \cup {r.idx}]

\* a job that finds nobody to send to: return, finally: conn.close()
NobodyRun == [IdleRun EXCEPT !.outcome = "completed", !.conn = "closed"]

\* morning_schedule_job up to the loop: connect, select, return if nobody
\* is selected, else take today's weekday from the server's clock
MorningStart ==
    /\ CanFire(MORNING)
    /\ lastFired' = [lastFired EXCEPT ![MORNING] = now]
    /\ IF store.up
       THEN LET sel == GetActiveUsers(users, now)
                fid == Len(firings) + 1
            IN  /\ firings' = Append(firings, FiringRecord(MORNING, sel, sel))
                /\ run' = [run EXCEPT ![MORNING] =
                       IF sel = <<>> THEN NobodyRun
                       ELSE [IdleRun EXCEPT
                               !.pc = "loop",
                               !.queue = [i \in 1..Len(sel) |-> Snapshot(users, sel[i])],
                               !.idx = 1, !.today = WeekdayOf(LocalNow),
                               !.fid = fid, !.conn = "open"]]
       ELSE /\ \E at \in StartFailures :
                 run' = [run EXCEPT ![MORNING] = JobStartFailure(at)]
            /\ UNCHANGED firings
    /\ UNCHANGED <<now, serverOff, users, time_slots, jobs, ledger, outbox,
                   nActions, nFailures, bc, recorded, callVars>>

\* one pass of the loop of morning_schedule_job: look up the pairs, format,
\* send with retry, record the outcome; if the lookup raises, the except of
\* the pass records an error instead
MorningStep(flip) ==
    /\ run[MORNING].pc = "loop"
    /\ run[MORNING].idx <= Len(run[MORNING].queue)
    /\ CanFlip(flip)
    /\ store' = Flipped(flip)
    /\ LET r == run[MORNING]
           user == r.queue[r.idx]
           written == Flipped(flip).up
       IN  IF store.up
           THEN \E plan \in Plans(MAX_RETRIES) :
                  LET res == JobSend(plan)
                      status == IF res.ok THEN "sent" ELSE "error"
                  IN  /\ nFailures + res.failed <= MaxSendFailures
                      /\ nFailures' = nFailures + res.failed
                      /\ outbox' = Append(outbox,
                             [fid |-> r.fid, chat_id |-> user.tg_id,
                              kind |-> "morning", ok |-> res.ok,
                              attempts |-> res.attempts])
                      /\ ledger' = TryLogDelivery(ledger, written, user.tg_id,
                                                  "morning", status, r.fid)
                      /\ recorded' = TryRecorded(recorded, written, status)
                      /\ run' = [run EXCEPT ![MORNING] =
                             [r EXCEPT !.idx = @ + 1,
                                       !.successful = IF res.ok THEN @ + 1 ELSE @,
                                       !.errors = IF res.ok THEN @ ELSE @ + 1]]
           ELSE /\ ledger' = TryLogDelivery(ledger, written, user.tg_id,
                                            "morning", "error", r.fid)
                /\ recorded' = TryRecorded(recorded, written, "error")
                /\ run' = [run EXCEPT ![MORNING] = AfterLookupRaised(r)]
                /\ UNCHANGED <<outbox, nFailures>>
    /\ UNCHANGED <<now, serverOff, users, time_slots, jobs, firings, lastFired,
                   nActions, bc, rt, bs, sched, reg>>

\* the end of a job: the summary line, then finally: conn.close()
JobFinish(e) ==
    /\ run[e].pc = "loop"
    /\ run[e].idx > Len(run[e].queue)
    /\ run' = [run EXCEPT ![e] = [@ EXCEPT !.pc = "idle", !.conn = "closed",
                                           !.outcome = "completed"]]
    /\ UNCHANGED <<now, serverOff, users, time_slots, jobs, ledger, outbox,
                   firings, lastFired, nActions, nFailures, bc, recorded,
                   callVars>>

\* reminder_job up to the loop: connect, select the active users, keep
\* those with remind_before, return if none, else take today's weekday
ReminderStart(e) ==
    /\ e \in Slots
    /\ CanFire(e)
    /\ lastFired' = [lastFired EXCEPT ![e] = now]
    /\ IF store.up
       THEN LET all_users == GetActiveUsers(users, now)
                sel == SelectSeq(all_users, LAMBDA u : users[u].remind_before)
                fid == Len(firings) + 1
            IN  /\ firings' = Append(firings, FiringRecord(e, all_users, sel))
                /\ run' = [run EXCEPT ![e] =
                       IF sel = <<>> THEN NobodyRun
                       ELSE [IdleRun EXCEPT
                               !.pc = "loop",
                               !.queue = [i \in 1..Len(sel) |-> Snapshot(users, sel[i])],
                               !.idx = 1, !.today = WeekdayOf(LocalNow),
                               !.fid = fid, !.conn = "open"]]
       ELSE /\ \E at \in StartFailures :
                 run' = [run EXCEPT ![e] = JobStartFailure(at)]
            /\ UNCHANGED firings
    /\ UNCHANGED <<now, serverOff, users, time_slots, jobs, ledger, outbox,
                   nActions, nFailures, bc, recorded, callVars>>

\* for pair, pair_start, pair_end in pairs: if pair_start == start_time: break
MatchingPair(pairs, start_time) ==
    LET hits == {i \in 1..Len(pairs) : pairs[i].start_time = start_time}
    IN  IF hits = {} THEN {}
        ELSE {pairs[CHOOSE i \in hits : \A j \in hits : i <= j]}

\* one pass of the loop of reminder_job: look up today's pairs, find the
\* first one starting at the job's start time, skip if there is none, else
\* format, send with retry and record the outcome; if the lookup raises,
\* the except of the pass records an error instead
ReminderStep(e, flip) ==
    /\ e \in Slots
    /\ run[e].pc = "loop"
    /\ run[e].idx <= Len(run[e].queue)
    /\ CanFlip(flip)
    /\ store' = Flipped(flip)
    /\ LET r == run[e]
           user == r.queue[r.idx]
           pairs == GetPairsByDirectionAndDay(user.direction_id, r.today, time_slots)
           matching_pair == MatchingPair(pairs, jobs[e].start_time)
           written == Flipped(flip).up
       IN  IF ~store.up
           THEN /\ ledger' = TryLogDelivery(ledger, written, user.tg_id,
                                            "reminder", "error", r.fid)
                /\ recorded' = TryRecorded(recorded, written, "error")
                /\ run' = [run EXCEPT ![e] = AfterLookupRaised(r)]
                /\ UNCHANGED <<outbox, nFailures>>
           ELSE IF matching_pair = {}
           THEN /\ run' = [run EXCEPT ![e] =
                       [r EXCEPT !.idx = @ + 1, !.skipped = @ + 1]]
                /\ UNCHANGED <<ledger, outbox, nFailures, recorded>>
           ELSE \E plan \in Plans(MAX_RETRIES) :
                  LET res == JobSend(plan)
                      status == IF res.ok THEN "sent" ELSE "error"
                  IN  /\ nFailures + res.failed <= MaxSendFailures
                      /\ nFailures' = nFailures + res.failed
                      /\ outbox' = Append(outbox,
                             [fid |-> r.fid, chat_id |-> user.tg_id,
                              kind |-> "reminder", ok |-> res.ok,
                              attempts |-> res.attempts,
                              pair |-> (CHOOSE m \in matching_pair : TRUE).pair.id])
                      /\ ledger' = TryLogDelivery(ledger, written, user.tg_id,
                                                  "reminder", status, r.fid)
                      /\ recorded' = TryRecorded(recorded, written, status)
                      /\ run' = [run EXCEPT ![e] =
                             [r EXCEPT !.idx = @ + 1,
                                       !.successful = IF res.ok THEN @ + 1 ELSE @,
                                       !.errors = IF res.ok THEN @ ELSE @ + 1]]
    /\ UNCHANGED <<now, serverOff, users, time_slots, jobs, firings, lastFired,
                   nActions, bc, rt, bs, sched, reg>>

\* ------------------------------------------------------------------------
\* Bot settings handlers (app/bot/handlers/settings.py)
\* ------------------------------------------------------------------------
\* the button of get_pause_duration_keyboard whose pause ends within the
\* horizon ("pause:1"; the others are 3, 7 and 14 days)
PauseDays == {1}

\* The handlers below are taken between the runs: a run reads the users
\* table only when it starts, so a change of settings during a run commutes
\* with the steps of the run.
NoRunActive == \A e \in Events : run[e].pc = "idle"

\* is_user_paused: paused_until is set and, read back as a datetime, lies
\* after datetime.now()
IsUserPaused(row, local_now) ==
    /\ row.paused_until # NULL
    /\ FromIsoFormat(row.paused_until) > local_now

\* process_pause_duration: paused_until = (datetime.now() + days).isoformat()
ProcessPauseDuration(u, days) ==
    /\ NoRunActive
    /\ nActions < MaxUserActions
    /\ nActions' = nActions + 1
    /\ users' = UpdateUserSettings(users, u, {},
                    {IsoFormat(LocalNow + days * MinutesPerDay)})
    /\ UNCHANGED <<now, serverOff, time_slots, jobs, run, ledger, outbox,
                   firings, lastFired, nFailures, bc, recorded, callVars>>

\* toggle_reminders: remind_before = not remind_before
ToggleReminders(u) ==
    /\ NoRunActive
    /\ nActions < MaxUserActions
    /\ nActions' = nActions + 1
    /\ users' = UpdateUserSettings(users, u, {~users[u].remind_before}, {})
    /\ UNCHANGED <<now, serverOff, time_slots, jobs, run, ledger, outbox,
                   firings, lastFired, nFailures, bc, recorded, callVars>>

\* resume_notifications: update_user_settings(conn, tg_id, paused_until=None)
ResumeNotifications(u) ==
    /\ NoRunActive
    /\ nActions < MaxUserActions
    /\ nActions' = nActions + 1
    /\ users' = UpdateUserSettings(users, u, {}, {})
    /\ UNCHANGED <<now, serverOff, time_slots, jobs, run, ledger, outbox,
                   firings, lastFired, nFailures, bc, recorded, callVars>>

\* ------------------------------------------------------------------------
\* Admin broadcast (app/admin/broadcast.py)
\* ------------------------------------------------------------------------
\* directions.course of the seeded directions
CourseOf(d) == d
\* the order of users.name: the later registered user sorts first
NameRank(u) == NumUsers + 1 - u

\* the targets of the form: 'all', 'course_X', 'direction_X'
Targets == {[course |-> 0, direction_id |-> 0],
            [course |-> 1, direction_id |-> 0],
            [course |-> 3, direction_id |-> 0],
            [course |-> 0, direction_id |-> 2]}

RECURSIVE OrderByName(_)
OrderByName(S) ==
    IF S = {} THEN <<>>
    ELSE LET u == CHOOSE x \in S : \A y \in S : NameRank(x) <= NameRank(y)
         IN  <<u>> \o OrderByName(S \ {u})

\* get_users_by_filter: users joined with their direction, not paused,
\* of the course and of the direction if given, ordered by name
GetUsersByFilter(table, utc, course, direction_id) ==
    OrderByName({u \in Users :
        /\ table[u].direction_id \in Directions
        /\ IsActiveRow(table[u], utc)
        /\ (course # 0 => CourseOf(table[u].direction_id) = course)
        /\ (direction_id # 0 => table[u].direction_id = direction_id)})

\* (variant: no test of the selection)
NoRecipientsNever(sel) == FALSE

\* if not users
NoRecipients(sel) == sel = <<>>

\* send_broadcast up to the loop: parse the target, select, redirect with
\* error=no_users if nobody matches; get_users_by_filter is not in a try, so
\* the request fails if the database is down.  The request is taken once the
\* jobs due at this instant have run: a broadcast made before them leaves
\* the ledger that a broadcast after the jobs of the instant before leaves.
BroadcastStart(target) ==
    /\ NoRunActive
    /\ \A e \in DOMAIN jobs : CronDue(e, now) => lastFired[e] = now
    /\ bc.pc = "idle"
    /\ bc.count < MaxBroadcasts
    /\ LET sel == GetUsersByFilter(users, now, target.course, target.direction_id)
       IN  bc' = IF ~store.up
                 THEN [IdleBroadcast EXCEPT !.count = bc.count + 1,
                                            !.outcome = "raised",
                                            !.target = target]
                 ELSE IF NoRecipients(sel)
                 THEN [IdleBroadcast EXCEPT !.count = bc.count + 1,
                                            !.outcome = "no_users",
                                            !.target = target]
                 ELSE [IdleBroadcast EXCEPT
                         !.pc = "loop",
                         !.queue = [i \in 1..Len(sel) |-> Snapshot(users, sel[i])],
                         !.idx = 1, !.count = bc.count + 1, !.target = target]
    /\ UNCHANGED <<now, serverOff, users, time_slots, jobs, run, ledger, outbox,
                   firings, lastFired, nActions, nFailures, recorded, callVars>>

\* one pass of the loop of send_broadcast: one bot.send_message, the outcome
\* recorded under users.id by log_broadcast_delivery, which raises if the
\* database is down: after a send that worked, `except Exception` takes it
\* and records an error; raised in an except clause, it leaves the loop and
\* the request (finally: bot.session.close())
BroadcastStep(flip) ==
    /\ bc.pc = "loop"
    /\ bc.idx <= Len(bc.queue)
    /\ CanFlip(flip)
    /\ flip => ~store.up
    /\ store' = Flipped(flip)
    /\ LET user == bc.queue[bc.idx]
       IN  \E o \in SendOutcomes :
             LET ok == (o = "ok")
                 status == IF ok THEN "sent" ELSE "error"
             IN  /\ ok \/ nFailures < MaxSendFailures
                 /\ flip => ok
                 /\ nFailures' = IF ok THEN nFailures ELSE nFailures + 1
                 /\ outbox' = Append(outbox, [fid |-> 0, chat_id |-> user.tg_id,
                                              kind |-> "broadcast", ok |-> ok,
                                              attempts |-> 1, first |-> o])
                 /\ IF store.up
                    THEN /\ ledger' = LogBroadcastDelivery(ledger, user.id, status)
                         /\ recorded' = Recorded(recorded, status)
                         /\ bc' = [bc EXCEPT !.idx = @ + 1,
                                             !.successful = IF ok THEN @ + 1 ELSE @,
                                             !.errors = IF ok THEN @ ELSE @ + 1]
                    ELSE IF ok /\ flip
                    THEN /\ ledger' = LogBroadcastDelivery(ledger, user.id, "error")
                         /\ recorded' = Recorded(recorded, "error")
                         /\ bc' = [bc EXCEPT !.idx = @ + 1, !.errors = @ + 1]
                    ELSE /\ bc' = [bc EXCEPT !.pc = "idle", !.outcome = "raised"]
                         /\ UNCHANGED <<ledger, recorded>>
    /\ UNCHANGED <<now, serverOff, users, time_slots, jobs, run, firings,
                   lastFired, nActions, rt, bs, sched, reg>>

\* the end of send_broadcast: close the bot session, redirect with the counts
BroadcastFinish ==
    /\ bc.pc = "loop"
    /\ bc.idx > Len(bc.queue)
    /\ bc' = [bc EXCEPT !.pc = "idle", !.outcome = "sent"]
    /\ UNCHANGED <<now, serverOff, users, time_slots, jobs, run, ledger, outbox,
                   firings, lastFired, nActions, nFailures, recorded, callVars>>

\* The database goes down (an outage) or comes back while a job or a
\* request is at work or due (a change while nothing is at work shows when
\* the next job is due).
SomethingAtWork == ~NoRunActive \/ bc.pc # "idle"
                   \/ \E e \in DOMAIN jobs : CronDue(e, now) /\ lastFired[e] # now

StoreFails ==
    /\ store.up
    /\ store.outages < MaxOutages
    /\ SomethingAtWork
    /\ store' = [up |-> FALSE, outages |-> store.outages + 1]
    /\ UNCHANGED <<now, serverOff, users, time_slots, jobs, run, ledger, outbox,
                   firings, lastFired, nActions, nFailures, bc, recorded,
                   rt, bs, sched, reg>>

StoreRecovers ==
    /\ ~store.up
    /\ SomethingAtWork
    /\ store' = [store EXCEPT !.up = TRUE]
    /\ UNCHANGED <<now, serverOff, users, time_slots, jobs, run, ledger, outbox,
                   firings, lastFired, nActions, nFailures, bc, recorded,
                   rt, bs, sched, reg>>

\* ------------------------------------------------------------------------
\* The clock
\* ------------------------------------------------------------------------
\* Time passes to the next instant of the grid, once the scheduler has
\* started the jobs that are due now and they have run to their end (a run
\* takes seconds, the instants of the grid are minutes apart).
Tick ==
    /\ sched.pc # "boot"
    /\ sched.pc = "running" =>
          \A e \in DOMAIN jobs : CronDue(e, now) => lastFired[e] = now
    /\ NoRunActive
    /\ bc.pc = "idle"
    /\ LET later == {t \in GridOfDay(DateOf(now)) \cup GridOfDay(DateOf(now) + 1) :
                        t > now /\ t <= EndTime}
       IN  /\ later # {}
           /\ now' = CHOOSE t \in later : \A o \in later : t <= o
    /\ UNCHANGED <<serverOff, users, time_slots, jobs, run, ledger, outbox,
                   firings, lastFired, nActions, nFailures, bc, recorded,
                   callVars>>

Next ==
    \/ MorningStart
    \/ MorningStep(FALSE)
    \/ \E e \in Events : JobFinish(e)
    \/ \E e \in Slots : ReminderStart(e)
    \/ \E e \in Slots : ReminderStep(e, FALSE)
    \/ \E u \in Users, days \in PauseDays : ProcessPauseDuration(u, days)
    \/ \E u \in Users : ToggleReminders(u)
    \/ Tick

\* The engine with the bot's settings handlers.
Spec == Init /\ [][Next]_vars

\* The engine with the admin console's broadcast, over the morning of the
\* first Tuesday: the users are as seeded or with the first of them paused
\* earlier for two weeks ("pause:14").
AdminStart == StartTime + MinutesPerDay
AdminEnd == AdminStart + MinutesPerDay \div 2

InitAdmin ==
    /\ InitEngine
    /\ now = AdminStart
    /\ users \in {SeedUsers, PausedEarlier}
    /\ serverOff = 0
    /\ rt = IdleRetry
    /\ bs = IdleBatch

TickAdmin == Tick /\ now' <= AdminEnd

NextAdmin ==
    \/ MorningStart
    \/ MorningStep(FALSE)
    \/ \E e \in Events : JobFinish(e)
    \/ \E e \in Slots : ReminderStart(e)
    \/ \E e \in Slots : ReminderStep(e, FALSE)
    \/ \E target \in Targets : BroadcastStart(target)
    \/ BroadcastStep(FALSE)
    \/ BroadcastFinish
    \/ TickAdmin

SpecAdmin == InitAdmin /\ [][NextAdmin]_vars

\* The engine with all three settings handlers of the bot, over the morning
\* of the first Tuesday, the users as seeded or the first of them paused.
NextSettings ==
    \/ MorningStart
    \/ MorningStep(FALSE)
    \/ \E e \in Events : JobFinish(e)
    \/ \E e \in Slots : ReminderStart(e)
    \/ \E e \in Slots : ReminderStep(e, FALSE)
    \/ \E u \in Users, days \in PauseDays : ProcessPauseDuration(u, days)
    \/ \E u \in Users : ToggleReminders(u)
    \/ \E u \in Users : ResumeNotifications(u)
    \/ TickAdmin

SpecSettings == InitAdmin /\ [][NextSettings]_vars

\* The process from its start, over the time slot tables of at most two
\* rows whose start times are taken from StartTexts and a timezone setting
\* that the scheduler knows or not; the users are as seeded, the server's
\* clock is UTC and the provider takes every send.
StartTexts == {HHMM(8, 30), HHMM(10, 10), HHMM(0, 2), HHMM(25, 0)}

SlotTables ==
    UNION {[D -> StartTexts] : D \in SUBSET Slots}

InitStartup ==
    /\ time_slots \in SlotTables
    /\ sched \in {[Running EXCEPT !.pc = "boot", !.tz_ok = ok] : ok \in BOOLEAN}
    /\ jobs = NoJobs
    /\ run = [e \in Events |-> IdleRun]
    /\ ledger = <<>>
    /\ outbox = <<>>
    /\ firings = <<>>
    /\ lastFired = [e \in Events |-> -1]
    /\ nActions = 0
    /\ nFailures = MaxSendFailures
    /\ bc = IdleBroadcast
    /\ recorded = [sent |-> 0, error |-> 0]
    /\ store = StoreUp
    /\ reg = IdleReg
    /\ now = StartTime
    /\ users = SeedUsers
    /\ serverOff = 0
    /\ rt = IdleRetry
    /\ bs = IdleBatch

Startup ==
    /\ sched.pc = "boot"
    /\ LET out == StartupOutcome(sched.tz_ok, time_slots)
       IN  /\ sched' = [sched EXCEPT !.pc = out.pc]
           /\ jobs' = out.jobs
    /\ UNCHANGED <<now, serverOff, users, time_slots, run, ledger, outbox,
                   firings, lastFired, nActions, nFailures, bc, recorded,
                   rt, bs, store, reg>>

NextStartup ==
    \/ Startup
    \/ MorningStart
    \/ MorningStep(FALSE)
    \/ \E e \in Events : JobFinish(e)
    \/ \E e \in Slots : ReminderStart(e)
    \/ \E e \in Slots : ReminderStep(e, FALSE)
    \/ Tick

SpecStartup == InitStartup /\ [][NextStartup]_vars

\* The jobs with a database that can go down and come back, at any point
\* between two of the program's store operations, from the first Monday to
\* the digest of the Tuesday; the users are as seeded, the server's clock
\* is UTC and the provider takes every send (the sends it fails have been
\* counted already).
FaultsEnd ==
    AdminStart + ((MORNING_MESSAGE_HOUR * 60 + MORNING_MESSAGE_MINUTE - TIMEZONE) % MinutesPerDay)

InitFaults ==
    /\ time_slots = SeedSlots
    /\ jobs = SetupScheduler(SeedSlots)
    /\ run = [e \in Events |-> IdleRun]
    /\ ledger = <<>>
    /\ outbox = <<>>
    /\ firings = <<>>
    /\ lastFired = [e \in Events |-> -1]
    /\ nActions = 0
    /\ nFailures = MaxSendFailures
    /\ bc = IdleBroadcast
    /\ recorded = [sent |-> 0, error |-> 0]
    /\ sched = Running
    /\ store = StoreUp
    /\ reg = IdleReg
    /\ now = StartTime
    /\ users = SeedUsers
    /\ serverOff = 0
    /\ rt = IdleRetry
    /\ bs = IdleBatch

TickFaults == Tick /\ now' <= FaultsEnd

NextFaults ==
    \/ MorningStart
    \/ \E flip \in BOOLEAN : MorningStep(flip)
    \/ \E e \in Events : JobFinish(e)
    \/ \E e \in Slots : ReminderStart(e)
    \/ \E e \in Slots, flip \in BOOLEAN : ReminderStep(e, flip)
    \/ StoreFails
    \/ StoreRecovers
    \/ TickFaults

SpecFaults == InitFaults /\ [][NextFaults]_vars

\* The jobs of a table whose first slot starts at 08:05, so that its
\* reminder is due in the minute of the digest, from the first Monday to
\* the digest of the Tuesday; the users are as seeded, the server's clock
\* is UTC and the provider takes every send.
OverlapSlots == [s \in Slots |-> IF s = 1 THEN HHMM(8, 5) ELSE HHMM(8, 30)]

InitOverlap ==
    /\ time_slots = OverlapSlots
    /\ jobs = SetupScheduler(OverlapSlots)
    /\ run = [e \in Events |-> IdleRun]
    /\ ledger = <<>>
    /\ outbox = <<>>
    /\ firings = <<>>
    /\ lastFired = [e \in Events |-> -1]
    /\ nActions = 0
    /\ nFailures = MaxSendFailures
    /\ bc = IdleBroadcast
    /\ recorded = [sent |-> 0, error |-> 0]
    /\ sched = Running
    /\ store = StoreUp
    /\ reg = IdleReg
    /\ now = StartTime
    /\ users = SeedUsers
    /\ serverOff = 0
    /\ rt = IdleRetry
    /\ bs = IdleBatch

NextOverlap ==
    \/ MorningStart
    \/ MorningStep(FALSE)
    \/ \E e \in Events : JobFinish(e)
    \/ \E e \in Slots : ReminderStart(e)
    \/ \E e \in Slots : ReminderStep(e, FALSE)
    \/ TickFaults

SpecOverlap == InitOverlap /\ [][NextOverlap]_vars

\* ------------------------------------------------------------------------
\* The admin console's time slots (app/admin/slots.py) and restarts
\* ------------------------------------------------------------------------
\* the start times an admin gives to a slot: that of the second seeded
\* slot, or a later one
EditTexts == {HHMM(10, 10), HHMM(11, 0)}

\* (variant: the update of a slot also reschedules the jobs)
JobsAfterSlotUpdateRescheduled(slots) == SetupScheduler(slots)

\* slot_update writes the row and nothing else: the scheduler of the bot
\* process keeps the jobs it was given at startup
JobsAfterSlotUpdate(slots) == jobs

\* slot_update: UPDATE time_slots SET start_time = ?, end_time = ? WHERE id = ?
\* (taken between the runs of the jobs)
SlotUpdate(slot_id, start_time) ==
    /\ sched.pc = "running"
    /\ sched.edits < MaxSlotEdits
    /\ NoRunActive
    /\ \A e \in DOMAIN jobs : CronDue(e, now) => lastFired[e] = now
    /\ slot_id \in DOMAIN time_slots
    /\ time_slots[slot_id] # start_time
    /\ time_slots' = [time_slots EXCEPT ![slot_id] = start_time]
    /\ jobs' = JobsAfterSlotUpdate(time_slots')
    /\ sched' = [sched EXCEPT !.edits = @ + 1]
    /\ UNCHANGED <<now, serverOff, users, run, ledger, outbox, firings,
                   lastFired, nActions, nFailures, bc, recorded, rt, bs, store, reg>>

\* The process is stopped and started again between the runs of the jobs:
\* main builds a new scheduler from the table as it is now.
Restart ==
    /\ sched.pc = "running"
    /\ sched.restarts < MaxRestarts
    /\ NoRunActive
    /\ \A e \in DOMAIN jobs : CronDue(e, now) => lastFired[e] = now
    /\ LET out == StartupOutcome(sched.tz_ok, time_slots)
       IN  /\ sched' = [sched EXCEPT !.pc = out.pc, !.restarts = @ + 1]
           /\ jobs' = out.jobs
    /\ UNCHANGED <<now, serverOff, users, time_slots, run, ledger, outbox,
                   firings, lastFired, nActions, nFailures, bc, recorded,
                   rt, bs, store, reg>>

\* The jobs, the edits of the slots and the restarts, over the morning of
\* the first Tuesday; the users are as seeded, the server's clock
\* is UTC and the provider takes every send.
InitSlots ==
    /\ time_slots = SeedSlots
    /\ jobs = SetupScheduler(SeedSlots)
    /\ run = [e \in Events |-> IdleRun]
    /\ ledger = <<>>
    /\ outbox = <<>>
    /\ firings = <<>>
    /\ lastFired = [e \in Events |-> -1]
    /\ nActions = 0
    /\ nFailures = MaxSendFailures
    /\ bc = IdleBroadcast
    /\ recorded = [sent |-> 0, error |-> 0]
    /\ sched = Running
    /\ store = StoreUp
    /\ reg = IdleReg
    /\ now = AdminStart
    /\ users = SeedUsers
    /\ serverOff = 0
    /\ rt = IdleRetry
    /\ bs = IdleBatch

NextSlots ==
    \/ MorningStart
    \/ MorningStep(FALSE)
    \/ \E e \in Events : JobFinish(e)
    \/ \E e \in Slots : ReminderStart(e)
    \/ \E e \in Slots : ReminderStep(e, FALSE)
    \/ \E slot_id \in Slots, start_time \in EditTexts : SlotUpdate(slot_id, start_time)
    \/ Restart
    \/ TickAdmin

SpecSlots == InitSlots /\ [][NextSlots]_vars

\* The broadcast with such a database, on the first Tuesday at 00:00.
NextAdminFaults ==
    \/ \E target \in Targets : BroadcastStart(target)
    \/ \E flip \in BOOLEAN : BroadcastStep(flip)
    \/ BroadcastFinish
    \/ StoreFails
    \/ StoreRecovers

SpecAdminFaults == InitAdmin /\ [][NextAdminFaults]_vars

\* ------------------------------------------------------------------------
\* Directions: the registration dialogue of the bot and the delete request
\* of the admin console (app/bot/handlers/registration.py, start.py,
\* settings.py; app/admin/directions.py)
\* ------------------------------------------------------------------------
\* the variables the dialogue and the console leave alone
flowRest == <<now, serverOff, time_slots, jobs, run, ledger, outbox, firings,
              lastFired, nActions, nFailures, bc, recorded, rt, bs, sched,
              store>>

\* get_course_keyboard: the buttons "course:1" .. "course:4"
CourseButtons == 1..4

\* get_directions_by_course: SELECT * FROM directions WHERE course = ?
GetDirectionsByCourse(directions, course) ==
    {d \in directions : CourseOf(d) = course}

\* get_direction_by_id: the row with that id, or None ({})
GetDirectionById(directions, direction_id) == directions \cap {direction_id}

\* SELECT COUNT(*) FROM users WHERE direction_id = ?
CountUsersOfDirection(table, created, direction_id) ==
    Cardinality({u \in DOMAIN table : table[u].direction_id = direction_id})
       + Cardinality(created \cap {direction_id})

\* cmd_start of a chat with no user row: ask for the name
CmdStart(c) ==
    /\ c = Applicant
    /\ reg.created = {}
    /\ reg.fsm[c].state = "none"
    /\ reg' = [reg EXCEPT !.fsm[c].state = "awaiting_name"]
    /\ UNCHANGED <<users, flowRest>>

\* process_name: keep the name, show the course keyboard
ProcessName(c) ==
    /\ reg.fsm[c].state = "awaiting_name"
    /\ reg' = [reg EXCEPT !.fsm[c].state = "awaiting_course"]
    /\ UNCHANGED <<users, flowRest>>

\* change_direction of a registered user: set changing_direction, show the
\* course keyboard
ChangeDirection(c) ==
    /\ c \in Users
    /\ reg.fsm[c].state = "none"
    /\ reg' = [reg EXCEPT !.fsm[c].state = "awaiting_course",
                          !.fsm[c].changing = TRUE]
    /\ UNCHANGED <<users, flowRest>>

\* process_course: show the directions of the course, or end the dialogue
\* (state.clear()) if it has none
ProcessCourse(c, course) ==
    /\ reg.fsm[c].state = "awaiting_course"
    /\ LET directions == GetDirectionsByCourse(reg.directions, course)
       IN  reg' = IF directions = {}
                  THEN [reg EXCEPT !.fsm[c] = NoFlow]
                  ELSE [reg EXCEPT !.fsm[c].state = "awaiting_direction",
                                   !.fsm[c].shown = directions]
    /\ UNCHANGED <<users, flowRest>>

\* back_to_course: the course keyboard replaces the direction keyboard
BackToCourse(c) ==
    /\ reg.fsm[c].state = "awaiting_direction"
    /\ reg' = [reg EXCEPT !.fsm[c].state = "awaiting_course",
                          !.fsm[c].shown = {}]
    /\ UNCHANGED <<users, flowRest>>

\* process_direction, on a button of the keyboard shown: look the direction
\* up, end the dialogue if it is gone, else keep its id and ask to confirm
ProcessDirection(c, direction_id) ==
    /\ reg.fsm[c].state = "awaiting_direction"
    /\ direction_id \in reg.fsm[c].shown
    /\ reg' = IF GetDirectionById(reg.directions, direction_id) = {}
              THEN [reg EXCEPT !.fsm[c] = NoFlow]
              ELSE [reg EXCEPT !.fsm[c].state = "confirming",
                               !.fsm[c].shown = {},
                               !.fsm[c].direction_id = direction_id]
    /\ UNCHANGED <<users, flowRest>>

\* confirm_registration: update_user_direction for a change, create_user for
\* a registration, with the direction id kept in the dialogue; state.clear()
ConfirmRegistration(c) ==
    /\ reg.fsm[c].state = "confirming"
    /\ IF reg.fsm[c].changing
       THEN /\ users' = [users EXCEPT ![c].direction_id = reg.fsm[c].direction_id]
            /\ reg' = [reg EXCEPT !.fsm[c] = NoFlow]
       ELSE /\ reg' = [reg EXCEPT !.fsm[c] = NoFlow,
                                  !.created = {reg.fsm[c].direction_id}]
            /\ UNCHANGED users
    /\ UNCHANGED flowRest

\* restart_registration: back to the course (a change) or to the name (the
\* direction id stays in the FSM data until process_direction overwrites
\* it, and nothing reads it before: it is dropped here)
RestartRegistration(c) ==
    /\ reg.fsm[c].state = "confirming"
    /\ reg' = [reg EXCEPT !.fsm[c].direction_id = 0,
                          !.fsm[c].state =
                  IF reg.fsm[c].changing THEN "awaiting_course" ELSE "awaiting_name"]
    /\ UNCHANGED <<users, flowRest>>

\* direction_delete, up to its first await after the count: the number of
\* users of the direction
DirectionDeleteCount(direction_id) ==
    /\ reg.del.pc = "idle"
    /\ reg' = [reg EXCEPT !.del =
                  [pc |-> "counted", direction_id |-> direction_id,
                   user_count |-> CountUsersOfDirection(users, reg.created,
                                                        direction_id)]]
    /\ UNCHANGED <<users, flowRest>>

\* direction_delete, the rest: nothing if the count was positive, else the
\* DELETEs of the pair assignments and of the direction, and the commit
DirectionDeleteApply ==
    /\ reg.del.pc = "counted"
    /\ reg' = IF reg.del.user_count > 0
              THEN [reg EXCEPT !.del = NoDelete]
              ELSE [reg EXCEPT
                      !.del = NoDelete,
                      !.pair_assignments =
                          {pd \in @ : pd[2] # reg.del.direction_id},
                      !.directions = @ \ {reg.del.direction_id}]
    /\ UNCHANGED <<users, flowRest>>

InitDirections ==
    /\ InitEngine
    /\ now = AdminStart
    /\ users = SeedUsers
    /\ serverOff = 0
    /\ rt = IdleRetry
    /\ bs = IdleBatch

NextDirections ==
    \/ \E c \in Chats : CmdStart(c)
    \/ \E c \in Chats : ProcessName(c)
    \/ \E c \in Chats : ChangeDirection(c)
    \/ \E c \in Chats, course \in CourseButtons : ProcessCourse(c, course)
    \/ \E c \in Chats : BackToCourse(c)
    \/ \E c \in Chats, d \in Directions : ProcessDirection(c, d)
    \/ \E c \in Chats : ConfirmRegistration(c)
    \/ \E c \in Chats : RestartRegistration(c)
    \/ \E d \in Directions : DirectionDeleteCount(d)
    \/ DirectionDeleteApply

SpecDirections == InitDirections /\ [][NextDirections]_vars

\* ------------------------------------------------------------------------
\* One call of send_message_with_retry, attempt by attempt, and its caller
\* (app/scheduler/utils/delivery.py, app/scheduler/jobs/morning_message.py)
\* ------------------------------------------------------------------------
engineVars == <<now, serverOff, users, time_slots, jobs, run, outbox, firings,
                lastFired, nActions, nFailures, bc, sched, store, reg>>

\* The call is made with the MAX_RETRIES of the environment (any integer
\* from -1 up) against a provider whose answers to the successive attempts
\* are rt.plan.
InitRetry ==
    /\ InitEngine
    /\ now = StartTime
    /\ users = SeedUsers
    /\ serverOff = 0
    /\ bs = IdleBatch
    /\ \E m \in (-1)..MaxRetriesBound :
         \E plan \in [1..(m + 2) -> SendOutcomes] :
            rt = [pc |-> "try", max_retries |-> m, plan |-> plan, attempt |-> 0,
                  sends |-> 0, sleeps |-> 0, result |-> "none"]

\* for attempt in range(max_retries + 1): try: await bot.send_message(...)
RetryAttempt ==
    /\ rt.pc = "try"
    /\ rt.attempt < rt.max_retries + 1
    /\ LET a == AfterAttempt(rt.attempt, rt.max_retries, rt.plan[rt.attempt + 1])
       IN  rt' = [rt EXCEPT
                    !.sends = @ + 1,
                    !.pc = IF a = "sleep" THEN "sleep" ELSE "returned",
                    !.result = IF a = "return_true" THEN "true"
                               ELSE IF a = "return_false" THEN "false" ELSE @]
    /\ UNCHANGED <<engineVars, ledger, recorded, bs>>

\* await asyncio.sleep(1), then the next round of the loop
RetryBackoff ==
    /\ rt.pc = "sleep"
    /\ rt' = [rt EXCEPT !.sleeps = @ + 1, !.attempt = @ + 1, !.pc = "try"]
    /\ UNCHANGED <<engineVars, ledger, recorded, bs>>

\* the loop is exhausted: the return False after it
RetryExhausted ==
    /\ rt.pc = "try"
    /\ rt.attempt >= rt.max_retries + 1
    /\ rt' = [rt EXCEPT !.pc = "returned", !.result = "false"]
    /\ UNCHANGED <<engineVars, ledger, recorded, bs>>

\* the caller, morning_schedule_job: if sent: log 'sent' else log 'error'
RetryCallerRecord ==
    /\ rt.pc = "returned"
    /\ LET status == IF rt.result = "true" THEN "sent" ELSE "error"
       IN  /\ ledger' = LogDelivery(ledger, TgIdOf(1), "morning", status, 0)
           /\ recorded' = Recorded(recorded, status)
    /\ rt' = [rt EXCEPT !.pc = "recorded"]
    /\ UNCHANGED <<engineVars, bs>>

NextRetry ==
    \/ RetryAttempt
    \/ RetryBackoff
    \/ RetryExhausted
    \/ RetryCallerRecord

SpecRetry == InitRetry /\ [][NextRetry]_vars

\* The call runs on: nothing in the event loop holds an attempt, a sleep or
\* the caller's record back for ever.
SpecRetryLive == SpecRetry /\ WF_vars(NextRetry)

\* ------------------------------------------------------------------------
\* One call of batch_send, step by step
\* (app/scheduler/utils/delivery.py)
\* ------------------------------------------------------------------------
\* what message_func(bot, user_id) can do: return True, return False (as
\* send_message_with_retry does when it gives up) or raise
TaskOutcomes == {"true", "false", "raise"}

\* user_ids[i:i + batch_size], as positions 1..n of the list
BatchSlice(i, batch_size, n) ==
    {j \in 1..n : i < j /\ j <= i + batch_size}

\* (variant: the sleep also follows a last batch that is full)
MoreBatchesInclusive(i, batch_size, n) == i + batch_size <= n

\* if i + batch_size < len(user_ids): await asyncio.sleep(delay)
MoreBatches(i, batch_size, n) == i + batch_size < n

\* (variant: the tasks are created and not awaited)
GatheredAtOnce(inflight) == TRUE

\* await asyncio.gather(*tasks, return_exceptions=True) returns when every
\* task has settled
Gathered(inflight) == inflight = {}

\* isinstance(result, Exception)
CountsAsError(o) == o = "raise"

InitBatch ==
    /\ InitEngine
    /\ now = StartTime
    /\ users = SeedUsers
    /\ serverOff = 0
    /\ rt = IdleRetry
    /\ \E n \in 0..MaxItems, b \in 1..MaxBatchSize :
          bs = [pc |-> "loop", n |-> n, batch_size |-> b, i |-> 0,
                inflight |-> {}, results |-> [j \in 1..n |-> "pending"],
                calls |-> [j \in 1..n |-> 0],
                successful |-> 0, errors |-> 0, delays |-> 0]

\* the head of the for loop and the start of a batch: the coroutines of the
\* slice are created and handed to gather, which runs them all at once
BatchStart ==
    /\ bs.pc = "loop"
    /\ bs.i < bs.n
    /\ LET batch == BatchSlice(bs.i, bs.batch_size, bs.n)
       IN  bs' = [bs EXCEPT
                    !.pc = "gather",
                    !.inflight = @ \cup batch,
                    !.calls = [j \in 1..bs.n |-> IF j \in batch THEN @[j] + 1 ELSE @[j]]]
    /\ UNCHANGED <<engineVars, ledger, recorded, rt>>

\* one of the sends in flight settles
BatchTaskSettle(j, o) ==
    /\ j \in bs.inflight
    /\ bs' = [bs EXCEPT !.inflight = @ \ {j}, !.results[j] = o]
    /\ UNCHANGED <<engineVars, ledger, recorded, rt>>

\* gather returns: the results of the batch are counted, then either the
\* sleep between batches begins or the loop goes on
BatchCount ==
    /\ bs.pc = "gather"
    /\ Gathered(bs.inflight)
    /\ LET batch == BatchSlice(bs.i, bs.batch_size, bs.n)
           bad == {j \in batch : CountsAsError(bs.results[j])}
           more == MoreBatches(bs.i, bs.batch_size, bs.n)
       IN  bs' = [bs EXCEPT
                    !.errors = @ + Cardinality(bad),
                    !.successful = @ + Cardinality(batch \ bad),
                    !.delays = IF more THEN @ + 1 ELSE @,
                    !.pc = IF more THEN "sleep" ELSE "loop",
                    !.i = IF more THEN @ ELSE @ + bs.batch_size]
    /\ UNCHANGED <<engineVars, ledger, recorded, rt>>

\* the sleep between two batches is over
BatchSleepDone ==
    /\ bs.pc = "sleep"
    /\ bs' = [bs EXCEPT !.pc = "loop", !.i = @ + bs.batch_size]
    /\ UNCHANGED <<engineVars, ledger, recorded, rt>>

\* the loop is over: return successful, errors
BatchReturn ==
    /\ bs.pc = "loop"
    /\ bs.i >= bs.n
    /\ bs' = [bs EXCEPT !.pc = "done"]
    /\ UNCHANGED <<engineVars, ledger, recorded, rt>>

NextBatch ==
    \/ BatchStart
    \/ \E j \in 1..MaxItems, o \in TaskOutcomes : BatchTaskSettle(j, o)
    \/ BatchCount
    \/ BatchSleepDone
    \/ BatchReturn

SpecBatch == InitBatch /\ [][NextBatch]_vars

\* ------------------------------------------------------------------------
\* Properties
\* ------------------------------------------------------------------------
DoneFirings ==
    {f \in 1..Len(firings) : \A e \in Events : run[e].fid = f => run[e].pc = "idle"}
ReminderFirings == {f \in 1..Len(firings) : firings[f].ev \in Slots}

\* the ledger rows and the sends of firing f for the user with row id u
RowsOf(f, u) ==
    {i \in 1..Len(ledger) : ledger[i].fid = f /\ ledger[i].user_id = TgIdOf(u)}
SendsOf(f, u) ==
    {i \in 1..Len(outbox) : outbox[i].fid = f /\ outbox[i].chat_id = TgIdOf(u)}

\* the user was paused at the instant of firing f: the pause-until written
\* by the pause handler (a local datetime) lay after the server's local now
PausedAtFiring(f, u) == IsUserPaused(firings[f].users[u], firings[f].local)

\* today at firing f: the weekday in the configured timezone
TodayOf(f) == WeekdayOf(firings[f].at + TIMEZONE)

\* the direction of u had, at firing f, a class today starting at the start
\* time of the slot of the firing
HasClassAtSlot(f, u) ==
    \E p \in Pairs :
        /\ firings[f].users[u].direction_id \in p.directions
        /\ p.day_of_week = TodayOf(f)
        /\ firings[f].slots[p.time_slot_id] = firings[f].start_time

\* C1: a recipient whose pause-until is set and strictly in the future when
\* a digest or reminder fires is not selected by that run, is sent nothing
\* by it and gets no ledger row from it.
C1_PausedNeverSelected ==
    \A f \in 1..Len(firings) : \A u \in Users :
        PausedAtFiring(f, u) =>
            /\ u \notin firings[f].selected
            /\ SendsOf(f, u) = {}
            /\ RowsOf(f, u) = {}

\* C2: a recipient with no active pause (pause-until null, or written by the
\* pause handler and at or before the current instant) is in the result of
\* get_active_users at every firing.
C2_UnpausedSelected ==
    \A f \in 1..Len(firings) : \A u \in Users :
        ~PausedAtFiring(f, u) => u \in firings[f].active

\* C3: in every finished reminder firing, each non-paused recipient with
\* reminders enabled whose direction has a class today starting at the slot's
\* start time has exactly one send and exactly one ledger row of that firing.
C3_ExactlyOneReminder ==
    \A f \in DoneFirings \cap ReminderFirings : \A u \in Users :
        ( /\ ~PausedAtFiring(f, u)
          /\ firings[f].users[u].remind_before
          /\ HasClassAtSlot(f, u) )
        => /\ Cardinality(SendsOf(f, u)) = 1
           /\ Cardinality(RowsOf(f, u)) = 1

\* C4: in every reminder firing, a selected recipient with no class at that
\* slot today is sent nothing and gets no ledger row, and once the run is
\* over it has counted each such recipient as skipped and counted as errors
\* only the error rows it wrote.
C4_NoClassSkipped ==
    \A f \in ReminderFirings :
        /\ \A u \in firings[f].selected :
              ~HasClassAtSlot(f, u) => SendsOf(f, u) = {} /\ RowsOf(f, u) = {}
        /\ f \in DoneFirings /\ firings[f].selected # {} =>
              LET r == run[firings[f].ev]
              IN  r.fid = f =>
                    /\ r.skipped >=
                         Cardinality({u \in firings[f].selected : ~HasClassAtSlot(f, u)})
                    /\ r.errors =
                         Cardinality({i \in 1..Len(ledger) :
                             ledger[i].fid = f /\ ledger[i].status = "error"})

\* ------------------------------------------------------------------------
\* Properties of batch_send (SpecBatch)
\* ------------------------------------------------------------------------
CeilDiv(n, b) == (n + b - 1) \div b

\* C5: a finished batch_send over N recipients with batch size B has slept
\* between batches exactly ceil(N/B) - 1 times, so never after the last
\* batch, and not at all when N = 0.
C5_DelaysBetweenBatches ==
    bs.pc = "done" =>
        bs.delays = IF bs.n = 0 THEN 0 ELSE CeilDiv(bs.n, bs.batch_size) - 1

\* a call over more than one batch, the last of them full, has returned
C5_Witness ==
    /\ bs.pc = "done"
    /\ bs.n = 2 * bs.batch_size
    /\ bs.delays = 1

\* C6: at most B sends are in flight at any time, all of them of the
\* current batch, and no send of a later batch has been started while one
\* of the current batch is unsettled; each send is started once.
C6_BoundedInFlight ==
    /\ Cardinality(bs.inflight) <= bs.batch_size
    /\ bs.inflight \subseteq BatchSlice(bs.i, bs.batch_size, bs.n)
    /\ \A j \in 1..bs.n :
          /\ bs.calls[j] <= 1
          /\ (bs.inflight # {} /\ bs.calls[j] > 0) => j <= bs.i + bs.batch_size

\* a second batch of full width is in flight
C6_Witness ==
    /\ bs.pc = "gather"
    /\ bs.i > 0
    /\ bs.batch_size >= 2
    /\ Cardinality(bs.inflight) = bs.batch_size

\* ------------------------------------------------------------------------
\* Properties of send_message_with_retry (SpecRetry, SpecRetryLive)
\* ------------------------------------------------------------------------
Returned == rt.pc \in {"returned", "recorded"}

\* the provider fails transiently max_retries times, then succeeds
FailsThenSucceeds ==
    /\ rt.max_retries >= 0
    /\ \A k \in 1..rt.max_retries : rt.plan[k] = "api_transient"
    /\ rt.plan[rt.max_retries + 1] = "ok"

\* the provider fails transiently on every attempt
AlwaysFails ==
    /\ rt.max_retries >= 0
    /\ \A k \in DOMAIN rt.plan : rt.plan[k] = "api_transient"

\* C7: when the provider fails transiently exactly max_retries times and
\* then succeeds, the call returns True after max_retries + 1 attempts and
\* makes no further one, and the caller records one sent row and no error
\* row.
C7_RetryThenSuccess ==
    FailsThenSucceeds =>
        /\ rt.sends <= rt.max_retries + 1
        /\ Returned => /\ rt.result = "true"
                       /\ rt.sends = rt.max_retries + 1
        /\ rt.pc = "recorded" => /\ Len(ledger) = 1
                                 /\ ledger[1].status = "sent"
                                 /\ recorded = [sent |-> 1, error |-> 0]

\* two transient failures, then a success, recorded by the caller
C7_Witness ==
    /\ FailsThenSucceeds
    /\ rt.max_retries = 2
    /\ rt.pc = "recorded"
    /\ rt.result = "true"

\* the invariant part of C8
C8_Bounded ==
    /\ AlwaysFails =>
          /\ rt.sends <= rt.max_retries + 1
          /\ rt.sleeps <= rt.max_retries
          /\ Returned => /\ rt.result = "false"
                         /\ rt.sends = rt.max_retries + 1
                         /\ rt.sleeps = rt.max_retries
    /\ (AlwaysFails /\ rt.max_retries = MAX_RETRIES) => rt.sends <= 2

\* C8: when every attempt fails transiently the call terminates: it returns
\* False after exactly max_retries + 1 attempts and max_retries sleeps, none
\* after the last attempt; with the default MAX_RETRIES that is at most one
\* retry.
C8_AlwaysFailingTerminates ==
    /\ []C8_Bounded
    /\ (AlwaysFails ~> Returned)

\* the default configuration: both attempts failed, failure returned
C8_Witness ==
    /\ AlwaysFails
    /\ rt.max_retries = MAX_RETRIES
    /\ rt.pc = "returned"
    /\ rt.result = "false"
    /\ rt.sends = 2
    /\ rt.sleeps = 1

\* C9: when the first attempt fails with a permanent provider error or with
\* an unexpected one, the call returns False at once: one attempt, no sleep
\* and no retry, whatever max_retries is.
C9_FatalNotRetried ==
    (rt.sends >= 1 /\ rt.plan[1] \in {"api_fatal", "unexpected"}) =>
        /\ rt.sends = 1
        /\ rt.sleeps = 0
        /\ Returned
        /\ rt.result = "false"

\* ------------------------------------------------------------------------
\* Properties of the ledger (SpecAdmin)
\* ------------------------------------------------------------------------
\* C10: the ledger is append-only - a step never changes or removes a row
\* recorded before - and once K sent and M error outcomes have been
\* recorded the statistics of the logs page report K sent, M errors and
\* K + M rows.
C10_LedgerAppendOnly ==
    [][ /\ Len(ledger') >= Len(ledger)
        /\ SubSeq(ledger', 1, Len(ledger)) = ledger
        /\ SummaryStats(ledger').sent = recorded'.sent
        /\ SummaryStats(ledger').errors = recorded'.error
        /\ SummaryStats(ledger').total = recorded'.sent + recorded'.error ]_vars

\* digests, two reminders of one user and a broadcast are recorded, one of
\* them an error
C10_Witness ==
    /\ \E i \in 1..Len(ledger) : ledger[i].message_type = "broadcast"
    /\ \E i \in 1..Len(ledger) : ledger[i].message_type = "morning"
    /\ \E i, j \in 1..Len(ledger) :
          /\ i < j
          /\ ledger[i].message_type = "reminder"
          /\ ledger[j].message_type = "reminder"
          /\ ledger[i].user_id = ledger[j].user_id
    /\ SummaryStats(ledger).errors = 1
    /\ SummaryStats(ledger).sent >= 3

\* ------------------------------------------------------------------------
\* Failures of the database
\* ------------------------------------------------------------------------
\* C11: a failure to write a ledger row never aborts a run: a digest, a
\* reminder run or a broadcast that has ended has gone through every
\* recipient it had selected.
C11_LedgerFailureNeverAborts ==
    /\ \A e \in Events :
         run[e].pc = "idle" /\ run[e].queue # <<>>
            => run[e].idx > Len(run[e].queue)
    /\ bc.pc = "idle" /\ bc.queue # <<>> => bc.idx > Len(bc.queue)

\* the sends and the ledger rows of the firing fid for the chat tg_id
SendsFor(fid, tg_id) ==
    {i \in 1..Len(outbox) : outbox[i].fid = fid /\ outbox[i].chat_id = tg_id}
RowsFor(fid, tg_id) ==
    {i \in 1..Len(ledger) : ledger[i].fid = fid /\ ledger[i].user_id = tg_id}

\* the recipients of a run are distinct users
C12_Apart(r) ==
    \A i, j \in 1..Len(r.queue) : i # j => r.queue[i].tg_id # r.queue[j].tg_id

\* what holds of a run r in which the passes of the positions r.raised
\* raised: each counts as one error and has no send and at most one row, an
\* error row; every other recipient passed has been sent or skipped; and the
\* run stops only at the end of its queue
C12_RunOk(r) ==
    /\ r.raised \subseteq 1..(r.idx - 1)
    /\ r.errors = Cardinality(r.raised)
    /\ r.successful + r.errors + r.skipped = r.idx - 1
    /\ \A i \in r.raised :
         /\ SendsFor(r.fid, r.queue[i].tg_id) = {}
         /\ Cardinality(RowsFor(r.fid, r.queue[i].tg_id)) <= 1
         /\ \A k \in RowsFor(r.fid, r.queue[i].tg_id) : ledger[k].status = "error"
    /\ r.successful =
         Cardinality({i \in 1..(r.idx - 1) : SendsFor(r.fid, r.queue[i].tg_id) # {}})
    /\ \A i \in 1..(r.idx - 1) : Cardinality(SendsFor(r.fid, r.queue[i].tg_id)) <= 1
    /\ r.pc = "idle" => r.idx > Len(r.queue)

C13_RunsEndCleanly ==
    /\ \A e \in Events :
         run[e].pc = "idle" =>
            /\ run[e].outcome \in {"none", "completed", "failed"}
            /\ ~run[e].escaped
            /\ run[e].conn # "open"
    /\ \A e \in DOMAIN jobs :
         sched.pc = "running" /\ CronDue(e, now) /\ lastFired[e] # now
            => run[e].pc = "idle"

\* ------------------------------------------------------------------------
\* Startup
\* ------------------------------------------------------------------------
BadConfiguration ==
    \/ ~sched.tz_ok
    \/ \E s \in DOMAIN time_slots : ~Parses(time_slots[s])

\* C14: if the timezone setting is not one the scheduler knows, or the start
\* time of any row of time_slots cannot be read, the scheduler is never
\* started and no event ever fires: no run, no send, no ledger row.
C14_BadConfigurationNeverFires ==
    BadConfiguration =>
        /\ sched.pc # "running"
        /\ \A e \in Events : lastFired[e] = -1 /\ run[e] = IdleRun
        /\ firings = <<>>
        /\ outbox = <<>>
        /\ ledger = <<>>

\* the start failed on the second row, after the digest's job and the first
\* row's job had been added; the Monday has passed and it is the hour of
\* the digest on the Tuesday
C14_Witness ==
    /\ sched.pc = "crashed"
    /\ sched.tz_ok
    /\ DOMAIN jobs = {MORNING, 1}
    /\ 2 \in DOMAIN time_slots
    /\ now > StartTime + MinutesPerDay
    /\ CronDue(MORNING, now)

\* C15: the fire time of every reminder job is the time of day
\* REMINDER_MINUTES_BEFORE minutes before the start of its slot, on the same
\* calendar day: counted in minutes from midnight, fire time plus lead is
\* the slot's start.
C15_ReminderLeadsSlot ==
    sched.pc = "running" =>
        \A e \in DOMAIN jobs \ {MORNING} :
            jobs[e].at.h * 60 + jobs[e].at.m + REMINDER_MINUTES_BEFORE
                = jobs[e].start_time.h * 60 + jobs[e].start_time.m

\* the calendar day, in the configured timezone, of the instant t
CivilDate(t) == DateOf(t + TIMEZONE)

\* the instant at which the trigger of job e matches on the calendar day d
CronInstant(e, d) ==
    d * MinutesPerDay + jobs[e].at.h * 60 + jobs[e].at.m - TIMEZONE

\* C16: a started scheduler has exactly the digest's job and one reminder
\* job per row of time_slots, under distinct ids; every job fires at its
\* computed time of day, once on every calendar day, and nobody is sent two
\* digests on one calendar day.
C16_OneJobPerSlotOncePerDay ==
    sched.pc = "running" =>
        /\ DOMAIN jobs = {MORNING} \cup DOMAIN time_slots
        /\ Cardinality(DOMAIN jobs) = 1 + Cardinality(DOMAIN time_slots)
        /\ \A e \in DOMAIN jobs : jobs[e].slot_number = e
        /\ \A f \in 1..Len(firings) :
             /\ firings[f].ev \in DOMAIN jobs
             /\ firings[f].at = CronInstant(firings[f].ev, CivilDate(firings[f].at))
        /\ \A f, g \in 1..Len(firings) :
             f # g /\ firings[f].ev = firings[g].ev
                => CivilDate(firings[f].at) # CivilDate(firings[g].at)
        /\ \A e \in DOMAIN jobs : \A d \in CivilDate(StartTime)..CivilDate(now) :
             StartTime <= CronInstant(e, d) /\ CronInstant(e, d) < now
                => \E f \in 1..Len(firings) :
                      firings[f].ev = e /\ firings[f].at = CronInstant(e, d)
        /\ \A i, j \in 1..Len(outbox) :
             /\ i # j
             /\ outbox[i].kind = "morning"
             /\ outbox[j].kind = "morning"
             /\ outbox[i].chat_id = outbox[j].chat_id
             => CivilDate(firings[outbox[i].fid].at) # CivilDate(firings[outbox[j].fid].at)

\* a table of two rows, three jobs; the digest and a reminder have fired on
\* the Monday and on the Tuesday, and a user has a digest of each day
C16_Witness ==
    /\ sched.pc = "running"
    /\ Cardinality(DOMAIN jobs) = 3
    /\ \E e \in Slots : \E f, g \in 1..Len(firings) :
          f # g /\ firings[f].ev = e /\ firings[g].ev = e
    /\ \E i, j \in 1..Len(outbox) :
          /\ i # j
          /\ outbox[i].kind = "morning"
          /\ outbox[j].kind = "morning"
          /\ outbox[i].chat_id = outbox[j].chat_id

\* ------------------------------------------------------------------------
\* The day and the rows of a run
\* ------------------------------------------------------------------------
\* C17: the weekday by which a run of a job looks up the classes is the
\* weekday in the configured timezone at the instant the job fired,
\* whatever the offset of the server's clock.
C17_WeekdayOfConfiguredZone ==
    \A e \in Events :
        run[e].fid # 0 => run[e].today = TodayOf(run[e].fid)

\* the digest firings that have ended and all of whose sends succeeded
CleanDigests ==
    {f \in DoneFirings :
        /\ firings[f].ev = MORNING
        /\ \A i \in 1..Len(outbox) : outbox[i].fid = f => outbox[i].ok}

\* C18: a digest firing all of whose sends succeed leaves exactly one row
\* for every recipient who was not paused when it fired, a row of status
\* "sent" and of type "daily_digest", and no row for a paused recipient.
C18_OneDigestRowEach ==
    \A f \in CleanDigests : \A u \in Users :
        IF PausedAtFiring(f, u)
        THEN RowsOf(f, u) = {}
        ELSE /\ Cardinality(RowsOf(f, u)) = 1
             /\ \A i \in RowsOf(f, u) :
                  /\ ledger[i].status = "sent"
                  /\ ledger[i].message_type = "daily_digest"

\* C19: of the reminder events of a day, a recipient who is not paused and
\* has reminders enabled is sent a reminder by the event of the slot at
\* whose start time they have a class today, once, and is passed over by the
\* event of every slot with another start time.
C19_RemindedByOwnSlotOnly ==
    \A f \in DoneFirings \cap ReminderFirings : \A u \in Users :
        ~PausedAtFiring(f, u) /\ firings[f].users[u].remind_before =>
            Cardinality(SendsOf(f, u)) = IF HasClassAtSlot(f, u) THEN 1 ELSE 0

\* ------------------------------------------------------------------------
\* The broadcast
\* ------------------------------------------------------------------------
\* C20: a broadcast request whose filter matches no recipient ends at once
\* with the no-recipients outcome: the step that takes the request sends
\* nothing and leaves the ledger as it was.
C20_NoRecipientsNoTrace ==
    [][ /\ bc'.count = bc.count + 1
        /\ GetUsersByFilter(users, now, bc'.target.course,
                            bc'.target.direction_id) = <<>>
        => /\ bc'.pc = "idle"
           /\ bc'.outcome = "no_users"
           /\ ledger' = ledger
           /\ outbox' = outbox ]_vars

\* a request for a course or a direction none of whose users is selected,
\* made after the jobs have written rows: it has ended with no_users
C20_Witness ==
    /\ bc.outcome = "no_users"
    /\ bc.target # NoTarget
    /\ GetUsersByFilter(users, now, bc.target.course, bc.target.direction_id) = <<>>
    /\ ledger # <<>>

\* the sends of the broadcasts
BroadcastSends == {i \in 1..Len(outbox) : outbox[i].kind = "broadcast"}

\* C21: a broadcast sends as the jobs do: a send that the provider fails with
\* a passing error is tried again, up to MAX_RETRIES more times, before an
\* error is recorded, and every outcome is a ledger row of type "broadcast".
C21_BroadcastRetries ==
    /\ \A i \in BroadcastSends :
         outbox[i].first = "api_transient" /\ ~outbox[i].ok
            => outbox[i].attempts = MAX_RETRIES + 1
    /\ bc.pc = "idle" =>
         Cardinality({i \in 1..Len(ledger) : ledger[i].message_type = "broadcast"})
            = Cardinality(BroadcastSends)

\* ------------------------------------------------------------------------
\* Runs side by side
\* ------------------------------------------------------------------------
\* C22: a run in progress neither delays nor suppresses another event: a
\* job that is due and has not fired in this minute can be started whatever
\* the other jobs are doing, and a step of one run changes the run record
\* of no other job (the runs share the ledger, which only grows).
C22_RunsSideBySide ==
    /\ [](\A e \in DOMAIN jobs :
            sched.pc = "running" /\ CronDue(e, now) /\ lastFired[e] # now
               => CanFire(e))
    /\ [][ /\ \A e, other \in Events :
                run'[e] # run[e] /\ other # e => run'[other] = run[other]
           /\ Len(ledger') >= Len(ledger)
           /\ SubSeq(ledger', 1, Len(ledger)) = ledger ]_vars

\* the digest and the reminder of the slot that starts at 08:05 fired in
\* the same minute and each has sent to a recipient while the other was still in
\* its loop
C22_Witness ==
    /\ run[MORNING].pc = "loop"
    /\ \E e \in Slots :
          /\ run[e].pc = "loop"
          /\ run[e].fid > run[MORNING].fid
          /\ \E i, j, k \in 1..Len(outbox) :
                /\ i < j /\ j < k
                /\ outbox[i].fid = run[MORNING].fid
                /\ outbox[j].fid = run[e].fid
                /\ outbox[k].fid = run[MORNING].fid

\* the number of sends of firing f
NumSendsOf(f) == Cardinality({i \in 1..Len(outbox) : outbox[i].fid = f})

\* C23: the sends of one run of a job go out in batches of BATCH_SIZE, one
\* batch after the other with a sleep of BATCH_DELAY between two batches: a
\* run that has ended after N sends has slept ceil(N / BATCH_SIZE) - 1
\* times.
C23_JobSendsInBatches ==
    \A e \in Events :
        run[e].pc = "idle" /\ run[e].fid # 0 /\ NumSendsOf(run[e].fid) > 0
           => run[e].delays = CeilDiv(NumSendsOf(run[e].fid), BATCH_SIZE) - 1

\* ------------------------------------------------------------------------
\* Edited time slots
\* ------------------------------------------------------------------------
\* the time of day, in the configured timezone, of the instant t
CivilTod(t) == TodOf(t + TIMEZONE)

\* C24: a change of a slot's start time leaves the jobs as they are: the
\* reminder of the slot goes on firing at the time computed from the start
\* time read at the last start; a restart computes the fire times anew, from
\* the table as it is then.
C24_FireTimeFixedUntilRestart ==
    /\ [][ /\ time_slots' # time_slots => jobs' = jobs /\ lastFired' = lastFired
           /\ sched'.restarts # sched.restarts =>
                 /\ jobs' = SetupScheduler(time_slots)
                 /\ \A e \in Slots :
                      jobs'[e].at = CalculateReminderTime(time_slots[e],
                                                          REMINDER_MINUTES_BEFORE) ]_vars
    /\ [](\A f \in ReminderFirings :
            /\ CivilTod(firings[f].at) =
                 LET at == CalculateReminderTime(firings[f].start_time,
                                                 REMINDER_MINUTES_BEFORE)
                 IN  at.h * 60 + at.m
            /\ sched.restarts = 0 => firings[f].start_time = SeedSlots[firings[f].ev])

\* the second slot was moved from 10:10 to 11:00: its reminder fired at
\* 10:05 all the same, the process was restarted and the reminder fired again
\* at 10:55
C24_Witness ==
    /\ sched.edits = 1 /\ sched.restarts = 1
    /\ time_slots[2] = HHMM(11, 0)
    /\ \E f, g \in ReminderFirings :
          /\ f < g
          /\ firings[f].ev = 2 /\ firings[g].ev = 2
          /\ firings[f].slots[2] = HHMM(11, 0)
          /\ CivilTod(firings[f].at) = 10 * 60 + 5
          /\ CivilTod(firings[g].at) = 10 * 60 + 55

\* ------------------------------------------------------------------------
\* The counts of batch_send
\* ------------------------------------------------------------------------
\* C25: batch_send over N ids calls the send function once for each id and
\* returns (successful, errors) with successful + errors = N, successful the
\* number of ids whose message was delivered (the function returned True)
\* and errors the number whose send failed (it raised, or returned False as
\* send_message_with_retry does).
C25_CountsDeliveries ==
    bs.pc = "done" =>
        /\ \A j \in 1..bs.n : bs.calls[j] = 1
        /\ bs.successful + bs.errors = bs.n
        /\ bs.successful = Cardinality({j \in 1..bs.n : bs.results[j] = "true"})
        /\ bs.errors = Cardinality({j \in 1..bs.n : bs.results[j] \in {"false", "raise"}})

\* ------------------------------------------------------------------------
\* Resuming notifications
\* ------------------------------------------------------------------------
\* C26: when resume_notifications completes for a paused user, the user's
\* paused_until is cleared (null).
C26_ResumeClearsPause ==
    [][\A u \in Users :
          ResumeNotifications(u) /\ IsUserPaused(users[u], LocalNow)
             => users'[u].paused_until = NULL]_vars

\* ------------------------------------------------------------------------
\* Whom a ledger row is about
\* ------------------------------------------------------------------------
\* C27: every ledger row, whatever its type, names its recipient by the
\* identifier the delivery log page joins on: the user the page shows with a
\* row is the user whose chat the message of that row was sent to.
C27_RowNamesItsRecipient ==
    [][Len(ledger') = Len(ledger) + 1 /\ Len(outbox') = Len(outbox) + 1
          => DeliveryLogUser(users, ledger'[Len(ledger')])
                = {u \in Users : users[u].tg_id = outbox'[Len(outbox')].chat_id}]_vars

\* ------------------------------------------------------------------------
\* Reminders under an edited time slot table
\* ------------------------------------------------------------------------
\* the reminders sent: the positions of outbox written by a reminder job
ReminderSends == {i \in 1..Len(outbox) : outbox[i].kind = "reminder"}
\* the slot the class of a reminder is assigned to
SlotOfPair(id) == (CHOOSE p \in Pairs : p.id = id).time_slot_id

\* C28: within one day, whatever the time slot table has been edited to
\* (two slots with the same start time included), the reminder event of slot
\* S reminds only about a class assigned to slot S, and a recipient receives
\* at most one reminder about a class.
C28_OneReminderPerClassOfItsSlot ==
    /\ \A i \in ReminderSends : SlotOfPair(outbox[i].pair) = firings[outbox[i].fid].ev
    /\ \A i, j \in ReminderSends :
          /\ outbox[i].ok /\ outbox[j].ok
          /\ outbox[i].chat_id = outbox[j].chat_id
          /\ outbox[i].pair = outbox[j].pair
          => i = j

\* the job of firing f was scheduled before the start time of its slot was
\* changed: the start time it carries is not the one in the table
FiredWithOldStartTime(f) ==
    firings[f].slots[firings[f].ev] # firings[f].start_time

\* the direction of u had, at firing f, a class today in the slot of f
HasClassInSlot(f, u) ==
    \E p \in Pairs :
        /\ firings[f].users[u].direction_id \in p.directions
        /\ p.day_of_week = TodayOf(f)
        /\ p.time_slot_id = firings[f].ev

\* C29: a reminder job scheduled before the start time of its slot was
\* changed, when it has fired, has sent a reminder to every recipient who was
\* not paused, had reminders enabled and has a class in that slot today.
C29_OldJobStillReminds ==
    \A f \in DoneFirings \cap ReminderFirings : \A u \in Users :
        /\ FiredWithOldStartTime(f)
        /\ ~PausedAtFiring(f, u)
        /\ firings[f].users[u].remind_before
        /\ HasClassInSlot(f, u)
        => SendsOf(f, u) # {}

\* ------------------------------------------------------------------------
\* Deleting a direction
\* ------------------------------------------------------------------------
\* C30: however the delete request of the console interleaves with the
\* registration and direction-change dialogues of the bot, the direction of
\* every user (registered before or since) is a row of the directions table.
C30_DirectionsResolve ==
    /\ \A u \in Users : users[u].direction_id \in reg.directions
    /\ reg.created \subseteq reg.directions

====
